---- MODULE Spec2Model ----
(***************************************************************************)
(* BOOST schema validation web API (backend/app.py): the BOOSTWebValidator *)
(* class and the /api/validate route, as a state machine over a read-only  *)
(* schema root directory.                                                  *)
(*                                                                         *)
(* Text is a sequence of tokens.  A token is either one character ("a",    *)
(* "_", "'") or a fixed piece of a template or file name that the code     *)
(* writes as a literal (".json", " is a required property").  Names that   *)
(* the code takes apart character by character (entity names, directory    *)
(* names, property names) are sequences of one-character tokens.           *)
(***************************************************************************)
EXTENDS Integers, Sequences, FiniteSets, TLC

VARIABLES schemaRoot, call, ret

vars == <<schemaRoot, call, ret>>

(***************************************************************************)
(* Bounds of the model.                                                    *)
(***************************************************************************)
MaxNameLen == 4
MaxDirLen == 3
MaxDirs == 2
MaxRows == 2
MaxRequired == 2
MaxPropLen == 2

(***************************************************************************)
(* Characters: str.isupper, str.lower, str.upper and the code point order  *)
(* that sorted() compares by, on the characters the model uses.            *)
(***************************************************************************)
UpperChars == {"A", "B"}
LowerChars == {"a", "b"}

isupper(c) == c \in UpperChars

lower(c) == IF c = "A" THEN "a" ELSE IF c = "B" THEN "b" ELSE c

upper(c) == IF c = "a" THEN "A" ELSE IF c = "b" THEN "B" ELSE c

ord(c) ==
    CASE c = " " -> 32
      [] c = "'" -> 39
      [] c = "A" -> 65
      [] c = "B" -> 66
      [] c = "_" -> 95
      [] c = "a" -> 97
      [] c = "b" -> 98

RECURSIVE JoinRange(_, _, _)
\* parts[lo] \o ... \o parts[hi], by halves to keep the evaluation shallow.
JoinRange(parts, lo, hi) ==
    IF lo > hi THEN <<>>
    ELSE IF lo = hi THEN parts[lo]
    ELSE LET mid == (lo + hi) \div 2
         IN JoinRange(parts, lo, mid) \o JoinRange(parts, mid + 1, hi)

\* ''.join(parts)
Join(parts) == JoinRange(parts, 1, Len(parts))

\* All texts of 1..n characters over an alphabet.
Texts(alphabet, n) == UNION {[1..k -> alphabet] : k \in 1..n}

RECURSIVE KSubsets(_, _)
\* The subsets of S with exactly k elements.
KSubsets(S, k) ==
    IF k = 0 THEN {{}}
    ELSE UNION {{T \cup {x} : x \in S \ T} : T \in KSubsets(S, k - 1)}

SubsetsUpTo(S, n) == UNION {KSubsets(S, k) : k \in 0..n}

(***************************************************************************)
(* Entity name codec.                                                      *)
(***************************************************************************)
\* Mutant: the underscore is emitted after the lowered capital, not before.
toDirectoryNameUnderscoreAfter(entity_name) ==
    Join([i \in 1..Len(entity_name) |->
            IF isupper(entity_name[i]) /\ i > 1
            THEN <<lower(entity_name[i]), "_">>
            ELSE <<lower(entity_name[i])>>])

\* ''.join(['_' + c.lower() if c.isupper() and i > 0 else c.lower()
\*          for i, c in enumerate(entity_name)])
toDirectoryName(entity_name) ==
    Join([i \in 1..Len(entity_name) |->
            IF isupper(entity_name[i]) /\ i > 1
            THEN <<"_", lower(entity_name[i])>>
            ELSE <<lower(entity_name[i])>>])

RECURSIVE split(_, _)
\* str.split(sep) for a one-character sep: always at least one segment,
\* empty segments kept.
split(s, sep) ==
    IF \A i \in 1..Len(s) : s[i] # sep THEN <<s>>
    ELSE LET k == CHOOSE i \in 1..Len(s) :
                      s[i] = sep /\ \A j \in 1..(i - 1) : s[j] # sep
         IN <<SubSeq(s, 1, k - 1)>> \o split(SubSeq(s, k + 1, Len(s)), sep)

\* str.capitalize(): first character upper-cased, the rest lower-cased.
capitalize(word) ==
    [i \in 1..Len(word) |-> IF i = 1 THEN upper(word[i]) ELSE lower(word[i])]

\* ''.join(word.capitalize() for word in item.name.split('_'))
toEntityName(dir_name) ==
    LET words == split(dir_name, "_")
    IN Join([i \in 1..Len(words) |-> capitalize(words[i])])

(***************************************************************************)
(* The schema root directory.  schemaRoot.exists says whether the root     *)
(* path exists; schemaRoot.entries maps the name of each entry of the root *)
(* to [is_dir, files], files mapping a file name to the file's content.    *)
(***************************************************************************)
SCHEMA_FILE == <<"validation_schema.json">>

NoFiles == [f \in {} |-> [kind |-> "none"]]

path_exists(root, dir_name, file_name) ==
    /\ root.exists
    /\ dir_name \in DOMAIN root.entries
    /\ root.entries[dir_name].is_dir
    /\ file_name \in DOMAIN root.entries[dir_name].files

(***************************************************************************)
(* sorted(): Python compares strings by code point, a proper prefix first. *)
(***************************************************************************)
RECURSIVE str_lt(_, _)
str_lt(s, t) ==
    IF t = <<>> THEN FALSE
    ELSE IF s = <<>> THEN TRUE
    ELSE IF ord(Head(s)) # ord(Head(t)) THEN ord(Head(s)) < ord(Head(t))
    ELSE str_lt(Tail(s), Tail(t))

str_le(s, t) == s = t \/ str_lt(s, t)

RECURSIVE insert_sorted(_, _)
insert_sorted(x, xs) ==
    IF xs = <<>> THEN <<x>>
    ELSE IF str_lt(x, Head(xs)) THEN <<x>> \o xs
    ELSE <<Head(xs)>> \o insert_sorted(x, Tail(xs))

RECURSIVE sorted(_)
sorted(xs) ==
    IF xs = <<>> THEN <<>>
    ELSE insert_sorted(xs[Len(xs)], sorted(SubSeq(xs, 1, Len(xs) - 1)))

RECURSIVE iterdir(_)
\* Path.iterdir(): the entries of a directory, in an order the OS picks.
iterdir(names) ==
    IF names = {} THEN <<>>
    ELSE LET n == CHOOSE x \in names : TRUE
         IN <<n>> \o iterdir(names \ {n})

\* Mutant: the entities are returned in directory order, unsorted, and
\* the check for the schema file is dropped.
get_available_entities_unchecked(root) ==
    IF ~root.exists THEN <<>>
    ELSE LET items == iterdir(DOMAIN root.entries)
             kept  == SelectSeq(items, LAMBDA n : root.entries[n].is_dir)
         IN [i \in 1..Len(kept) |-> toEntityName(kept[i])]

get_available_entities(root) ==
    IF ~root.exists THEN <<>>
    ELSE LET items == iterdir(DOMAIN root.entries)
             kept  == SelectSeq(items, LAMBDA n :
                          /\ root.entries[n].is_dir
                          /\ SCHEMA_FILE \in DOMAIN root.entries[n].files)
         IN sorted([i \in 1..Len(kept) |-> toEntityName(kept[i])])

(***************************************************************************)
(* Requests.  Every request reads schemaRoot and leaves it unchanged; call *)
(* records the request and ret what it returned or raised.                 *)
(***************************************************************************)
NoCall == [op |-> "none"]
NoRet == [kind |-> "none"]

Returned(v) == [kind |-> "return", value |-> v]
Raised(e) == [kind |-> "raise", exc |-> e]

\* ---- the codec on its own: names over letters, round trip ----
CodecAlphabet == UpperChars \cup LowerChars

EmptyRoot == [exists |-> FALSE, entries |-> [n \in {} |-> NoFiles]]

InitCodec ==
    /\ schemaRoot = EmptyRoot
    /\ call = NoCall
    /\ ret = NoRet

RoundTrip ==
    \E name \in Texts(CodecAlphabet, MaxNameLen) :
        /\ call' = [op |-> "round_trip", entity_name |-> name]
        /\ ret' = Returned([dir_name |-> toDirectoryName(name),
                            entity_name |-> toEntityName(toDirectoryName(name))])
        /\ UNCHANGED schemaRoot

NextCodec == RoundTrip

SpecCodec == InitCodec /\ [][NextCodec]_vars

\* ---- listing ----
DirAlphabet == {"a", "_"}

DirNames == Texts(DirAlphabet, MaxDirLen)

PlainFile == [is_dir |-> FALSE, files |-> NoFiles]
EmptyDir == [is_dir |-> TRUE, files |-> NoFiles]
SchemaDir ==
    [is_dir |-> TRUE, files |-> (SCHEMA_FILE :> [kind |-> "json", doc |-> "doc"])]

ListingRoots ==
    {EmptyRoot} \cup
    {[exists |-> TRUE, entries |-> e] :
        e \in UNION {[S -> {PlainFile, EmptyDir, SchemaDir}] :
                        S \in SubsetsUpTo(DirNames, MaxDirs)}}

InitList ==
    /\ schemaRoot \in ListingRoots
    /\ call = NoCall
    /\ ret = NoRet

GetAvailableEntities ==
    /\ call' = [op |-> "get_available_entities"]
    /\ ret' = Returned(get_available_entities(schemaRoot))
    /\ UNCHANGED schemaRoot

NextList == GetAvailableEntities

SpecList == InitList /\ [][NextList]_vars

\* ---- examples ----
Malformed == [kind |-> "malformed"]
Json(d) == [kind |-> "json", doc |-> d]

\* f"{example_name}.json" and f"{entity_dir}_example.json"
example_file_name(stem) == stem \o <<".json">>
default_example_stem(entity_dir) == entity_dir \o <<"_example">>

\* with open(path) as f: return json.load(f)
json_load(root, dir_name, file_name) ==
    LET content == root.entries[dir_name].files[file_name]
    IN IF content.kind = "json" THEN Returned(content.doc)
       ELSE Raised("JSONDecodeError")

\* Mutant: the default example is opened without asking whether it exists.
get_entity_example_no_exists(root, entity_name, example_name) ==
    LET entity_dir == toDirectoryName(entity_name)
        named      == example_file_name(example_name)
        default    == example_file_name(default_example_stem(entity_dir))
    IN IF example_name # <<>> /\ path_exists(root, entity_dir, named)
       THEN json_load(root, entity_dir, named)
       ELSE IF path_exists(root, entity_dir, default)
            THEN json_load(root, entity_dir, default)
            ELSE Raised("FileNotFoundError")

\* example_name = <<>> stands for None and for "": both are falsy at
\* the test of example_name.
get_entity_example(root, entity_name, example_name) ==
    LET entity_dir == toDirectoryName(entity_name)
        named      == example_file_name(example_name)
        default    == example_file_name(default_example_stem(entity_dir))
    IN IF example_name # <<>> /\ path_exists(root, entity_dir, named)
       THEN json_load(root, entity_dir, named)
       ELSE IF path_exists(root, entity_dir, default)
            THEN json_load(root, entity_dir, default)
            ELSE Returned("{}")

\* The route: jsonify(example), or 404 with {error} on any exception.
get_entity_example_route(root, entity_name, example_name) ==
    LET r == get_entity_example(root, entity_name, example_name)
    IN IF r.kind = "return"
       THEN Returned([status |-> 200, body |-> r.value])
       ELSE Returned([status |-> 404, body |-> [error |-> r.exc]])

ExampleEntities == {<<"A">>, <<"B">>}
ExampleNames == {<<>>, <<"x">>, <<"y">>, <<"a", "_example">>}
ExampleFileNames == {<<"x", ".json">>, <<"a", "_example", ".json">>}
ExampleContents == {Malformed, Json("{}"), Json("doc1"), Json("doc2")}

ExampleDirs ==
    {PlainFile} \cup
    {[is_dir |-> TRUE, files |-> f] :
        f \in UNION {[S -> ExampleContents] : S \in SUBSET ExampleFileNames}}

ExampleRoots ==
    {EmptyRoot} \cup
    {[exists |-> TRUE, entries |-> e] :
        e \in UNION {[S -> ExampleDirs] : S \in SUBSET {<<"a">>}}}

InitExample ==
    /\ schemaRoot \in ExampleRoots
    /\ call = NoCall
    /\ ret = NoRet

GetEntityExample ==
    \E entity_name \in ExampleEntities, example_name \in ExampleNames :
        /\ call' = [op |-> "get_entity_example", entity_name |-> entity_name,
                    example_name |-> example_name]
        /\ ret' = get_entity_example(schemaRoot, entity_name, example_name)
        /\ UNCHANGED schemaRoot

GetEntityExampleRoute ==
    \E entity_name \in ExampleEntities, example_name \in ExampleNames \ {<<>>} :
        /\ call' = [op |-> "get_entity_example_route", entity_name |-> entity_name,
                    example_name |-> example_name]
        /\ ret' = get_entity_example_route(schemaRoot, entity_name, example_name)
        /\ UNCHANGED schemaRoot

NextExample == GetEntityExample \/ GetEntityExampleRoute

SpecExample == InitExample /\ [][NextExample]_vars

\* ---- dictionary ----
(***************************************************************************)
(* A line of the dictionary file, content.split('\n')[i], is a record:     *)
(* kind says which of the parser's tests the line passes, text is          *)
(* line.strip() as tokens, and a <td> line carries the raw text that        *)
(* re.search(r'<td>([^<]+)') captures.                                     *)
(*   overview_hdr  line.strip() == "### Overview"                          *)
(*   heading       line.startswith("###"), any other heading               *)
(*   blank         line.strip() is empty                                   *)
(*   text          none of the parser's markers                            *)
(*   table_open    '<table class="data">' in line                          *)
(*   table_close   '</table>' in line                                      *)
(*   tr, tr_end    line.strip().startswith("<tr>"), ("</tr>")              *)
(*   th, td        line.strip().startswith("<th>"), ("<td>")               *)
(***************************************************************************)
OverviewHdr == [kind |-> "overview_hdr", text |-> <<"### Overview">>]
Heading == [kind |-> "heading", text |-> <<"### Fields">>]
Blank == [kind |-> "blank", text |-> <<>>]
Para(t) == [kind |-> "text", text |-> <<t>>]
TableOpen == [kind |-> "table_open", text |-> <<"<table class=data>">>]
TableClose == [kind |-> "table_close", text |-> <<"</table>">>]
Tr == [kind |-> "tr", text |-> <<"<tr>">>]
TrEnd == [kind |-> "tr_end", text |-> <<"</tr>">>]
Th(h) == [kind |-> "th", text |-> <<"<th>">> \o h \o <<"</th>">>, raw |-> h]
Td(c) == [kind |-> "td", text |-> <<"<td>">> \o c \o <<"</td>">>, raw |-> c]

\* The backquote character, as a token of a cell's text.
BACKQUOTE == "BACKQUOTE"

\* str.lower() on the words of the model's cells
lower_word(w) ==
    CASE w = "Yes" -> "yes"
      [] w = "REQUIRED" -> "required"
      [] w = "No" -> "no"
      [] OTHER -> w

lower_cell(c) == [i \in 1..Len(c) |-> lower_word(c[i])]

RECURSIVE strip_spaces(_)
\* str.strip() of accumulated text: the " " tokens at both ends go.
strip_spaces(t) ==
    IF t = <<>> THEN t
    ELSE IF Head(t) = " " THEN strip_spaces(Tail(t))
    ELSE IF t[Len(t)] = " " THEN strip_spaces(SubSeq(t, 1, Len(t) - 1))
    ELSE t

\* cell_match.group(1).strip().replace(BACKQUOTE, '')
clean_cell(raw) == SelectSeq(strip_spaces(raw), LAMBDA tok : tok # BACKQUOTE)

\* Where the while loop of a row stops: the first </tr> line from j on, or
\* len(lines).
row_end(lines, j) ==
    IF \E k \in j..Len(lines) : lines[k].kind = "tr_end"
    THEN CHOOSE k \in j..Len(lines) :
             /\ lines[k].kind = "tr_end"
             /\ \A m \in j..(k - 1) : lines[m].kind # "tr_end"
    ELSE Len(lines) + 1

\* The while loop of a row: the cleaned text of every <td> line from line j
\* up to where the loop stops, in order.
row_cells(lines, j) ==
    LET tds == SelectSeq(SubSeq(lines, j, row_end(lines, j) - 1),
                         LAMBDA l : l.kind = "td")
    IN [k \in 1..Len(tds) |-> clean_cell(tds[k].raw)]

\* fields[field_name] = {...} when the row gave at least 4 cells
store_field(fields, field_data) ==
    IF Len(field_data) >= 4
    THEN LET entry == [type |-> field_data[2],
                       required |-> lower_cell(field_data[3]) \in
                                       {<<"yes">>, <<"required">>, <<"true">>},
                       description |-> field_data[4],
                       examples |-> IF Len(field_data) > 4 THEN field_data[5] ELSE <<>>]
         IN [n \in DOMAIN fields \cup {field_data[1]} |->
                IF n = field_data[1] THEN entry ELSE fields[n]]
    ELSE fields

\* Mutant: a row is stored as soon as it has 3 cells.
parse_line_three_cells(lines, i, st) ==
    LET line == lines[i]
    IN IF line.kind = "overview_hdr" THEN [st EXCEPT !.in_overview = TRUE]
       ELSE LET st1 == IF line.kind = "heading" /\ st.in_overview
                       THEN [st EXCEPT !.in_overview = FALSE]
                       ELSE IF st.in_overview /\ line.kind # "blank"
                       THEN [st EXCEPT !.overview = @ \o line.text \o <<" ">>]
                       ELSE st
            IN IF line.kind = "table_open" THEN [st1 EXCEPT !.in_table = TRUE]
               ELSE IF line.kind = "table_close" THEN [st1 EXCEPT !.in_table = FALSE]
               ELSE IF st1.in_table /\ line.kind = "th"
               THEN [st1 EXCEPT !.table_headers = Append(@, line.raw)]
               ELSE IF st1.in_table /\ line.kind = "tr"
               THEN LET cells == row_cells(lines, i + 1)
                    IN [st1 EXCEPT !.fields =
                           IF Len(cells) = 3 THEN store_field(@, cells \o <<<<>>>>)
                           ELSE store_field(@, cells)]
               ELSE st1

\* One iteration of the loop over enumerate(lines).
parse_line(lines, i, st) ==
    LET line == lines[i]
    IN IF line.kind = "overview_hdr" THEN [st EXCEPT !.in_overview = TRUE]
       ELSE LET st1 == IF line.kind = "heading" /\ st.in_overview
                       THEN [st EXCEPT !.in_overview = FALSE]
                       ELSE IF st.in_overview /\ line.kind # "blank"
                       THEN [st EXCEPT !.overview = @ \o line.text \o <<" ">>]
                       ELSE st
            IN IF line.kind = "table_open" THEN [st1 EXCEPT !.in_table = TRUE]
               ELSE IF line.kind = "table_close" THEN [st1 EXCEPT !.in_table = FALSE]
               ELSE IF st1.in_table /\ line.kind = "th"
               THEN [st1 EXCEPT !.table_headers = Append(@, line.raw)]
               ELSE IF st1.in_table /\ line.kind = "tr"
               THEN [st1 EXCEPT !.fields = store_field(@, row_cells(lines, i + 1))]
               ELSE st1

RECURSIVE parse_range(_, _, _, _)
\* The loop over lines lo..hi from state st, in order; the range is halved
\* only to keep the evaluation shallow.
parse_range(lines, lo, hi, st) ==
    IF lo > hi THEN st
    ELSE IF lo = hi THEN parse_line(lines, lo, st)
    ELSE LET mid  == (lo + hi) \div 2
             left == parse_range(lines, lo, mid, st)
         IN \* the test is always true: it has the first half evaluated
            \* before the second starts
            IF left.in_table \in BOOLEAN
            THEN parse_range(lines, mid + 1, hi, left)
            ELSE left

NoFields == [n \in {} |-> [type |-> <<>>, required |-> FALSE,
                           description |-> <<>>, examples |-> <<>>]]

parse_dictionary_markdown(lines) ==
    LET st == parse_range(lines, 1, Len(lines),
                  [overview |-> <<>>, in_overview |-> FALSE, fields |-> NoFields,
                   in_table |-> FALSE, table_headers |-> <<>>])
    IN [overview |-> strip_spaces(st.overview), fields |-> st.fields]

dictionary_file_name(entity_dir) == entity_dir \o <<"_dictionary.md">>

get_entity_dictionary(root, entity_name) ==
    LET entity_dir == toDirectoryName(entity_name)
        file_name  == dictionary_file_name(entity_dir)
    IN IF ~path_exists(root, entity_dir, file_name)
       THEN Returned([error |-> <<"Dictionary file not found: ">> \o entity_dir \o file_name])
       ELSE Returned(parse_dictionary_markdown(
                         root.entries[entity_dir].files[file_name].lines))

\* The documents of the model: "### Overview", a paragraph, a heading or
\* nothing, then one table with its header row and up to MaxRows body rows
\* of 3 to 5 cells.  shape records how the document was put together.
Paragraphs ==
    {<<Para("p1")>>, <<Para("p1"), Para("p2")>>, <<Para("p1"), Blank, Para("p2")>>,
     <<Blank, Para("p2"), Blank>>}

RowShapes ==
    [name : {<<BACKQUOTE, "f1", BACKQUOTE>>, <<"f2">>},
     required : {<<" ", "Yes">>, <<"no">>, <<"REQUIRED">>}, ncells : {3, 4, 5}]

row_lines(r) ==
    LET cells == <<Td(r.name), Td(<<"string">>), Td(r.required), Td(<<"desc">>),
                    Td(<<"ex">>)>>
    IN <<Tr>> \o SubSeq(cells, 1, r.ncells) \o <<TrEnd>>

HeaderRow ==
    <<Tr, Th(<<"Field">>), Th(<<"Type">>), Th(<<"Required">>), Th(<<"Description">>),
      TrEnd>>

document(shape) ==
    <<OverviewHdr>> \o shape.paragraph
        \o (IF shape.heading THEN <<Heading>> ELSE <<>>)
        \o <<TableOpen>> \o HeaderRow
        \o Join([i \in 1..Len(shape.rows) |-> row_lines(shape.rows[i])])
        \o <<TableClose>>

DocShapes ==
    [paragraph : Paragraphs, heading : BOOLEAN,
     rows : UNION {[1..k -> RowShapes] : k \in 0..MaxRows}]

DictionaryRoots ==
    {[exists |-> TRUE,
      entries |-> (<<"a">> :> [is_dir |-> TRUE,
                               files |-> (dictionary_file_name(<<"a">>) :>
                                   [kind |-> "text", lines |-> document(sh),
                                    shape |-> sh])])] : sh \in DocShapes}

InitDictionary ==
    /\ schemaRoot \in DictionaryRoots
    /\ call = NoCall
    /\ ret = NoRet

GetEntityDictionary ==
    \E entity_name \in {<<"A">>, <<"B">>} :
        /\ call' = [op |-> "get_entity_dictionary", entity_name |-> entity_name]
        /\ ret' = get_entity_dictionary(schemaRoot, entity_name)
        /\ UNCHANGED schemaRoot

NextDictionary == GetEntityDictionary

SpecDictionary == InitDictionary /\ [][NextDictionary]_vars

\* ---- validation ----
(***************************************************************************)
(* JSON values of test data are the tokens of JsonValues.  A schema file   *)
(* holds a JSON document: not an object (a list, say), or an object        *)
(*   [is_object, envelope, rules, schema]                                  *)
(* where envelope says the document has a "schema" key holding the schema  *)
(* (else the document is the schema), rules is the state of the top-level  *)
(* "rules" key (absent; empty, a falsy value such as {}; present, a truthy *)
(* one), and schema is                                                     *)
(*   [required   : text sequence, the "required" list,                     *)
(*    properties : sequence of [name, constraint], the "properties" dict   *)
(*                 in its order, each subschema one keyword or none].      *)
(* The keys of a schema are taken in the order required, properties.       *)
(***************************************************************************)
JsonValues == {"str_x", "str_empty", "num_1", "null"}

is_string(v) == v \in {"str_x", "str_empty"}

Constraints == {"none", "type", "enum", "pattern", "minLength", "format", "const"}

\* The value of the keyword in the subschema.
validator_value(keyword) ==
    CASE keyword = "type" -> <<"string">>
      [] keyword = "enum" -> <<"str_x">>
      [] keyword = "pattern" -> <<"^x$">>
      [] keyword = "minLength" -> <<"1">>
      [] keyword = "format" -> <<"date">>
      [] keyword = "const" -> <<"str_x">>

\* jsonschema's keyword functions on one value.  Draft7Validator(schema) is
\* built without a format_checker, so "format" never reports.
violates(keyword, v) ==
    CASE keyword = "none" -> FALSE
      [] keyword = "type" -> ~is_string(v)
      [] keyword = "enum" -> v # "str_x"
      [] keyword = "pattern" -> is_string(v) /\ v # "str_x"
      [] keyword = "minLength" -> v = "str_empty"
      [] keyword = "format" -> FALSE
      [] keyword = "const" -> v # "str_x"

\* repr() of a str: single quotes, or double quotes when the text holds a
\* single quote (and no double quote).
py_repr(text) ==
    IF \E i \in 1..Len(text) : text[i] = "'"
    THEN <<"\"">> \o text \o <<"\"">>
    ELSE <<"'">> \o text \o <<"'">>

\* The errors of the "required" keyword: one per listed property that the
\* instance lacks, in the order of the list.
required_errors(required, instance) ==
    LET missing == SelectSeq(required, LAMBDA property : property \notin DOMAIN instance)
    IN [i \in 1..Len(missing) |->
           [validator |-> "required", absolute_path |-> <<>>,
            message |-> py_repr(missing[i]) \o <<" is a required property">>,
            validator_value |-> required, instance |-> "object"]]

\* The errors of the "properties" keyword: each property the instance has is
\* checked against its subschema, in the order of the dict.
properties_errors(properties, instance) ==
    LET failing == SelectSeq(properties, LAMBDA p :
                       /\ p.name \in DOMAIN instance
                       /\ violates(p.constraint, instance[p.name]))
    IN [i \in 1..Len(failing) |->
           [validator |-> failing[i].constraint, absolute_path |-> <<failing[i].name>>,
            message |-> <<instance[failing[i].name], " violates ", failing[i].constraint>>,
            validator_value |-> validator_value(failing[i].constraint),
            instance |-> instance[failing[i].name]]]

\* list(validator.iter_errors(test_data))
iter_errors(schema, instance) ==
    required_errors(schema.required, instance)
        \o properties_errors(schema.properties, instance)

RECURSIVE join_with(_, _)
\* sep.join(parts)
join_with(sep, parts) ==
    IF parts = <<>> THEN <<>>
    ELSE IF Len(parts) = 1 THEN parts[1]
    ELSE parts[1] \o <<sep>> \o join_with(sep, Tail(parts))

\* str.replace(old, '') for a one-token old
remove_token(text, old) == SelectSeq(text, LAMBDA tok : tok # old)

\* Mutant: the descriptor carries the category and the message, no field.
format_validation_error_no_field(error) ==
    [type |-> IF error.validator \in {"required", "type", "enum", "pattern", "format"}
              THEN error.validator
              ELSE IF error.validator \in {"minLength", "maxLength", "minimum", "maximum"}
              THEN "constraint" ELSE "other",
     message |-> error.message]

format_validation_error(error) ==
    LET field_path == IF error.absolute_path # <<>>
                      THEN join_with(".", error.absolute_path)
                      ELSE <<"root">>
        validator == error.validator
        is_root == field_path = <<"root">>
    IN IF validator = "required"
       THEN LET missing_prop ==
                    strip_spaces(remove_token(remove_token(error.message, "'"),
                                              " is a required property"))
            IN [type |-> "required", field |-> missing_prop,
                message |-> <<"Missing required field: '">> \o missing_prop \o <<"'">>
                              \o (IF is_root THEN <<>> ELSE <<" in ">> \o field_path)]
       ELSE IF validator = "type"
       THEN [type |-> "type", field |-> field_path,
             message |-> IF is_root
                         THEN <<"Invalid type: expected ">> \o error.validator_value
                         ELSE <<"Field '">> \o field_path \o <<"': expected type ">>
                                  \o error.validator_value,
             expected |-> error.validator_value, actual_value |-> error.instance]
       ELSE IF validator = "enum"
       THEN [type |-> "enum", field |-> field_path,
             message |-> (IF is_root THEN <<"Value must be one of: ">>
                          ELSE <<"Field '">> \o field_path \o <<"': value must be one of: ">>)
                             \o <<"'">> \o error.validator_value \o <<"'">>,
             allowed_values |-> error.validator_value, actual_value |-> error.instance]
       ELSE IF validator = "pattern"
       THEN [type |-> "pattern", field |-> field_path,
             message |-> <<"Field '">> \o field_path
                             \o <<"': value does not match required pattern '">>
                             \o error.validator_value \o <<"'">>,
             pattern |-> error.validator_value, actual_value |-> error.instance]
       ELSE IF validator \in {"minLength", "maxLength", "minimum", "maximum"}
       THEN [type |-> "constraint", field |-> field_path,
             message |-> <<"Field '">> \o field_path
                             \o (CASE validator = "minLength" -> <<"': must be at least ">>
                                   [] validator = "maxLength" -> <<"': must be at most ">>
                                   [] validator = "minimum" -> <<"': value must be at least ">>
                                   [] OTHER -> <<"': value must be at most ">>)
                             \o error.validator_value
                             \o (IF validator \in {"minLength", "maxLength"}
                                 THEN <<" characters long">> ELSE <<>>),
             constraint |-> validator, value |-> error.validator_value]
       ELSE IF validator = "format"
       THEN [type |-> "format", field |-> field_path,
             message |-> <<"Field '">> \o field_path \o <<"': must be a valid ">>
                             \o error.validator_value,
             expected_format |-> error.validator_value]
       ELSE [type |-> "other", field |-> IF is_root THEN <<"None">> ELSE field_path,
             message |-> IF is_root THEN error.message
                         ELSE <<"Field '">> \o field_path \o <<"': ">> \o error.message]

\* A Python str in the errors list.
Str(text) == [str |-> text]

\* load_entity_schema: the schema, or the exception raised.
load_entity_schema(root, entity_name) ==
    LET entity_dir == toDirectoryName(entity_name)
    IN IF ~path_exists(root, entity_dir, SCHEMA_FILE)
       THEN Raised("FileNotFoundError")
       ELSE LET content == root.entries[entity_dir].files[SCHEMA_FILE]
            IN IF content.kind # "json" THEN Raised("JSONDecodeError")
               ELSE IF ~content.doc.is_object THEN Raised("AttributeError")
               ELSE Returned(content.doc.schema)

ErrorTypes == {"required", "format", "pattern", "enum", "type", "constraint", "other"}

EmptyBuckets == [t \in ErrorTypes |-> <<>>]

\* Mutant: every descriptor is filed under "other".
group_error_all_other(errors_by_type, formatted_error) ==
    [errors_by_type EXCEPT !["other"] = Append(@, formatted_error)]

\* The body of the grouping loop: formatted_error goes to the bucket of its
\* type, or to "other" when its type is no key of errors_by_type.
group_error(errors_by_type, formatted_error) ==
    LET error_type == IF "type" \in DOMAIN formatted_error
                      THEN formatted_error.type ELSE "other"
    IN IF error_type \in DOMAIN errors_by_type
       THEN [errors_by_type EXCEPT ![error_type] = Append(@, formatted_error)]
       ELSE [errors_by_type EXCEPT !["other"] = Append(@, formatted_error)]

RECURSIVE format_and_group(_, _)
\* for error in validation_errors: ..., from the state acc of the loop
format_and_group(validation_errors, acc) ==
    IF validation_errors = <<>> THEN acc
    ELSE LET formatted_error == format_validation_error(Head(validation_errors))
         IN format_and_group(Tail(validation_errors),
                [all_errors |-> Append(acc.all_errors, formatted_error),
                 errors_by_type |-> group_error(acc.errors_by_type, formatted_error)])

\* Mutant: the check runs whether or not the file has "rules".
business_rules_ungated(doc, schema, test_data) ==
    LET failing == SelectSeq(schema.required, LAMBDA field :
                       \/ field \notin DOMAIN test_data
                       \/ test_data[field] = "null"
                       \/ test_data[field] = "str_empty")
    IN [valid |-> failing = <<>>,
        errors |-> [i \in 1..Len(failing) |->
                       Str(<<"Required field '">> \o failing[i]
                               \o <<"' is missing or empty">>)]
                   \o <<Str(<<"Note: Advanced business rule validation temporarily disabled">>)>>]

\* Mutant: the check runs for any "rules" key, whatever its value.
business_rules_any_key(doc, schema, test_data) ==
    IF doc.rules # "absent"
    THEN business_rules_ungated(doc, schema, test_data)
    ELSE [valid |-> TRUE, errors |-> <<>>]

\* The business rule check of a passed validation: the schema file is read
\* again; with a truthy "rules" value every field of the schema's required
\* list that test_data lacks, or holds as None or "", gives a warning.
business_rules(doc, schema, test_data) ==
    IF doc.rules = "present"
    THEN LET failing == SelectSeq(schema.required, LAMBDA field :
                            \/ field \notin DOMAIN test_data
                            \/ test_data[field] = "null"
                            \/ test_data[field] = "str_empty")
         IN [valid |-> failing = <<>>,
             errors |-> [i \in 1..Len(failing) |->
                            Str(<<"Required field '">> \o failing[i]
                                    \o <<"' is missing or empty">>)]
                        \o <<Str(<<"Note: Advanced business rule validation temporarily disabled">>)>>]
    ELSE [valid |-> TRUE, errors |-> <<>>]

\* Mutant: only FileNotFoundError is caught; any other exception leaves
\* validate_entity.
validate_entity_no_generic_except(root, entity_name, test_data) ==
    LET loaded == load_entity_schema(root, entity_name)
    IN IF loaded.kind = "raise" /\ loaded.exc = "FileNotFoundError"
       THEN Returned([valid |-> FALSE, schema_valid |-> FALSE,
                      business_rules_valid |-> FALSE,
                      errors |-> <<Str(<<"Schema not found: ", "Schema file not found: ">>
                                           \o toDirectoryName(entity_name) \o SCHEMA_FILE)>>,
                      message |-> <<"Schema file not found">>])
       ELSE IF loaded.kind = "raise"
       THEN loaded
       ELSE LET schema == loaded.value
                validation_errors == iter_errors(schema, test_data)
            IN IF validation_errors # <<>>
               THEN LET grouped == format_and_group(validation_errors,
                                       [all_errors |-> <<>>, errors_by_type |-> EmptyBuckets])
                    IN Returned([valid |-> FALSE, schema_valid |-> FALSE,
                                 business_rules_valid |-> FALSE,
                                 errors |-> grouped.all_errors,
                                 errors_by_type |-> grouped.errors_by_type,
                                 message |-> <<"Schema validation failed">>])
               ELSE LET doc == root.entries[toDirectoryName(entity_name)]
                                   .files[SCHEMA_FILE].doc
                        rules == business_rules(doc, schema, test_data)
                    IN Returned([valid |-> TRUE, schema_valid |-> TRUE,
                                 business_rules_valid |-> rules.valid,
                                 errors |-> rules.errors,
                                 message |-> IF rules.valid THEN <<"Validation successful">>
                                             ELSE <<"Schema valid but business rules failed">>])

\* validate_entity: what it returns.  The try block's exceptions end in one
\* of the two except clauses, each of which returns a dict.
validate_entity(root, entity_name, test_data) ==
    LET loaded == load_entity_schema(root, entity_name)
    IN IF loaded.kind = "raise" /\ loaded.exc = "FileNotFoundError"
       THEN Returned([valid |-> FALSE, schema_valid |-> FALSE,
                      business_rules_valid |-> FALSE,
                      errors |-> <<Str(<<"Schema not found: ", "Schema file not found: ">>
                                           \o toDirectoryName(entity_name) \o SCHEMA_FILE)>>,
                      message |-> <<"Schema file not found">>])
       ELSE IF loaded.kind = "raise"
       THEN Returned([valid |-> FALSE, schema_valid |-> FALSE,
                      business_rules_valid |-> FALSE,
                      errors |-> <<Str(<<"Validation error: ", loaded.exc>>)>>,
                      message |-> <<"Validation error">>])
       ELSE LET schema == loaded.value
                validation_errors == iter_errors(schema, test_data)
            IN IF validation_errors # <<>>
               THEN LET grouped == format_and_group(validation_errors,
                                       [all_errors |-> <<>>, errors_by_type |-> EmptyBuckets])
                    IN Returned([valid |-> FALSE, schema_valid |-> FALSE,
                                 business_rules_valid |-> FALSE,
                                 errors |-> grouped.all_errors,
                                 errors_by_type |-> grouped.errors_by_type,
                                 message |-> <<"Schema validation failed">>])
               ELSE LET doc == root.entries[toDirectoryName(entity_name)]
                                   .files[SCHEMA_FILE].doc
                        rules == business_rules(doc, schema, test_data)
                    IN Returned([valid |-> TRUE, schema_valid |-> TRUE,
                                 business_rules_valid |-> rules.valid,
                                 errors |-> rules.errors,
                                 message |-> IF rules.valid THEN <<"Validation successful">>
                                             ELSE <<"Schema valid but business rules failed">>])

\* ---- the /api/validate route ----
(***************************************************************************)
(* The JSON body of a request: not an object (request.get_json() gave None *)
(* or a list), or an object whose entity_name and test_data keys are each  *)
(* absent or present with a value.  An entity name is a text (<<>> is "");  *)
(* test data is an object, a function from property names to JSON values   *)
(* (the empty function is {}).                                             *)
(***************************************************************************)
Absent == [present |-> FALSE]
Present(v) == [present |-> TRUE, value |-> v]

EmptyObject == [n \in {} |-> "null"]

\* `not x` for an entity name: None (absent) and "" are falsy.
name_is_falsy(key) == ~key.present \/ key.value = <<>>

\* `not x` for test data: None (absent) and {} are falsy.
data_is_falsy(key) == ~key.present \/ DOMAIN key.value = {}

\* The route's response; validated says whether validator.validate_entity
\* was called, the route's only access to the schema root.
validate_route(root, body) ==
    IF ~body.is_object
    THEN Returned([status |-> 500, body |-> [error |-> "AttributeError"],
                   validated |-> FALSE])
    ELSE IF name_is_falsy(body.entity_name) \/ data_is_falsy(body.test_data)
    THEN Returned([status |-> 400,
                   body |-> [error |-> "Missing entity_name or test_data"],
                   validated |-> FALSE])
    ELSE LET result == validate_entity(root, body.entity_name.value,
                                       body.test_data.value)
         IN IF result.kind = "raise"
            THEN Returned([status |-> 500, body |-> [error |-> result.exc],
                           validated |-> TRUE])
            ELSE Returned([status |-> 200, body |-> result.value, validated |-> TRUE])

\* ---- validation requests over two plain property names ----
FieldNames == <<<<"a">>, <<"b">>>>

Range(f) == {f[i] : i \in DOMAIN f}

\* The sequences of at most n distinct elements of S.
DistinctSeqs(S, n) ==
    {q \in UNION {[1..k -> S] : k \in 0..n} :
        \A i, j \in DOMAIN q : i # j => q[i] # q[j]}

Objects(names, values) == UNION {[D -> values] : D \in SUBSET names}

ValidationSchemas ==
    {[required |-> r,
      properties |-> [i \in 1..Len(FieldNames) |->
                         [name |-> FieldNames[i], constraint |-> c[i]]]] :
        r \in DistinctSeqs(Range(FieldNames), MaxRequired),
        c \in [1..Len(FieldNames) -> Constraints]}

SchemaDocs(schemas) ==
    {[is_object |-> FALSE]} \cup
    {[is_object |-> TRUE, envelope |-> e, rules |-> r, schema |-> sc] :
        e \in BOOLEAN, r \in {"absent", "empty", "present"}, sc \in schemas}

SchemaRoots(schemas) ==
    {EmptyRoot,
     [exists |-> TRUE, entries |-> (<<"a">> :> EmptyDir)],
     [exists |-> TRUE,
      entries |-> (<<"a">> :> [is_dir |-> TRUE, files |-> (SCHEMA_FILE :> Malformed)])]}
    \cup
    {[exists |-> TRUE,
      entries |-> (<<"a">> :> [is_dir |-> TRUE, files |-> (SCHEMA_FILE :> Json(d))])] :
        d \in SchemaDocs(schemas)}

ValidationEntities == {<<"A">>, <<"B">>}

InitValidate ==
    /\ schemaRoot \in SchemaRoots(ValidationSchemas)
    /\ call = NoCall
    /\ ret = NoRet

\* A request is served from the idle state.  Requests leave schemaRoot as it
\* is, so serving further requests reaches no state that one request from
\* the initial state does not reach.
ValidateEntity ==
    /\ call = NoCall
    /\ \E entity_name \in ValidationEntities,
          test_data \in Objects(Range(FieldNames), JsonValues) :
          /\ call' = [op |-> "validate_entity", entity_name |-> entity_name,
                      test_data |-> test_data]
          /\ ret' = validate_entity(schemaRoot, entity_name, test_data)
          /\ UNCHANGED schemaRoot

RequestBodies ==
    {[is_object |-> FALSE]} \cup
    {[is_object |-> TRUE, entity_name |-> n, test_data |-> d] :
        n \in {Absent, Present(<<>>), Present(<<"A">>)},
        d \in {Absent} \cup {Present(o) : o \in Objects({<<"a">>}, {"str_x", "num_1"})}}

PostValidate ==
    /\ call = NoCall
    /\ \E body \in RequestBodies :
          /\ call' = [op |-> "post_validate", body |-> body]
          /\ ret' = validate_route(schemaRoot, body)
          /\ UNCHANGED schemaRoot

NextValidate == ValidateEntity \/ PostValidate

SpecValidate == InitValidate /\ [][NextValidate]_vars

\* ---- validation requests over required lists of awkward names ----
PropAlphabet == {"a", "'", " "}

PropNames == Texts(PropAlphabet, MaxPropLen)

RequiredSchemas ==
    {[required |-> r, properties |-> <<>>] : r \in DistinctSeqs(PropNames, MaxRequired)}

InitRequired ==
    /\ schemaRoot \in SchemaRoots(RequiredSchemas)
    /\ call = NoCall
    /\ ret = NoRet

\* The names the schema file of entity A requires, {} when no schema loads.
RequiredNames(root) ==
    LET loaded == load_entity_schema(root, <<"A">>)
    IN IF loaded.kind = "return" THEN Range(loaded.value.required) ELSE {}

ValidateRequired ==
    /\ call = NoCall
    /\ \E test_data \in Objects(RequiredNames(schemaRoot), {"num_1"}) :
          /\ call' = [op |-> "validate_entity", entity_name |-> <<"A">>,
                      test_data |-> test_data]
          /\ ret' = validate_entity(schemaRoot, <<"A">>, test_data)
          /\ UNCHANGED schemaRoot

NextRequired == ValidateRequired

SpecRequired == InitRequired /\ [][NextRequired]_vars

(***************************************************************************)
(* Properties.                                                             *)
(***************************************************************************)
IsPascalCase(name) ==
    /\ Len(name) >= 1
    /\ \A i \in 1..Len(name) : name[i] \in UpperChars \cup LowerChars
    /\ isupper(name[1])
    /\ \A i \in 1..(Len(name) - 1) : ~(isupper(name[i]) /\ isupper(name[i + 1]))

\* C8: for every PascalCase entity name of ASCII letters with an uppercase
\* first letter and no two consecutive uppercase letters, toDirectoryName
\* followed by toEntityName gives the name back.
C8_RoundTrip ==
    (call.op = "round_trip" /\ IsPascalCase(call.entity_name))
        => ret.value.entity_name = call.entity_name

\* A two-word name (an inner capital, so an underscore in the directory
\* name) that came back unchanged.
C8_Witness ==
    /\ call.op = "round_trip"
    /\ IsPascalCase(call.entity_name)
    /\ \E i \in 2..Len(call.entity_name) : isupper(call.entity_name[i])
    /\ \E i \in 1..Len(ret.value.dir_name) : ret.value.dir_name[i] = "_"
    /\ ret.value.entity_name = call.entity_name

Qualifies(root, n) ==
    /\ root.exists
    /\ n \in DOMAIN root.entries
    /\ root.entries[n].is_dir
    /\ SCHEMA_FILE \in DOMAIN root.entries[n].files

Occurrences(xs, x) == Cardinality({i \in 1..Len(xs) : xs[i] = x})

\* One name per qualifying directory, none for any other entry.
ListsExactlyTheSchemaDirs(root, names) ==
    /\ Len(names) = Cardinality({n \in DOMAIN root.entries : Qualifies(root, n)})
    /\ \A i \in 1..Len(names) :
          Occurrences(names, names[i]) =
              Cardinality({n \in DOMAIN root.entries :
                              Qualifies(root, n) /\ toEntityName(n) = names[i]})
    /\ \A n \in DOMAIN root.entries :
          Qualifies(root, n) => \E i \in 1..Len(names) : names[i] = toEntityName(n)

\* C9 as stated: listEntities is in strict lexicographic order (no name
\* twice) and holds the PascalCase name of exactly the subdirectories that
\* hold validation_schema.json.
C9_StrictOrder ==
    call.op = "get_available_entities" =>
        /\ \A i \in 1..(Len(ret.value) - 1) : str_lt(ret.value[i], ret.value[i + 1])
        /\ ListsExactlyTheSchemaDirs(schemaRoot, ret.value)

\* C9 amended: listEntities is in non-decreasing lexicographic order and
\* holds one name per subdirectory that holds validation_schema.json (the
\* same name twice when two such directories map to one entity name), and
\* no name for an entry that is not a directory or lacks the file.
C9_SortedOnePerSchemaDir ==
    call.op = "get_available_entities" =>
        /\ \A i \in 1..(Len(ret.value) - 1) : str_le(ret.value[i], ret.value[i + 1])
        /\ ListsExactlyTheSchemaDirs(schemaRoot, ret.value)

\* Two schema directories with different entity names, both listed.
C9_Witness ==
    /\ call.op = "get_available_entities"
    /\ Len(ret.value) = 2
    /\ str_lt(ret.value[1], ret.value[2])
    /\ Cardinality(DOMAIN schemaRoot.entries) = 2

\* The file get_entity_example reads for a call, <<>> when it reads none.
SelectedExample(root, entity_name, example_name) ==
    LET d == toDirectoryName(entity_name)
    IN IF example_name # <<>> /\ path_exists(root, d, example_name \o <<".json">>)
       THEN example_name \o <<".json">>
       ELSE IF path_exists(root, d, d \o <<"_example", ".json">>)
            THEN d \o <<"_example", ".json">>
            ELSE <<>>

ExampleCall == call.op \in {"get_entity_example", "get_entity_example_route"}

\* C7 as stated: loadExample returns a JSON document and raises nothing in
\* every state of the entity directory (malformed example files included),
\* and returns {} when neither example file exists.
C7_NeverFails ==
    call.op = "get_entity_example" =>
        /\ ret.kind = "return"
        /\ SelectedExample(schemaRoot, call.entity_name, call.example_name) = <<>>
              => ret.value = "{}"

\* C7 amended: loadExample returns {} when neither example file exists and
\* the parsed document when the file it selects is well-formed; when that
\* file is malformed the parse error is raised to the caller, and the route
\* answers 404 with an {error} body.
C7_FailsOnlyOnMalformed ==
    ExampleCall =>
        LET sel == SelectedExample(schemaRoot, call.entity_name, call.example_name)
            dir == toDirectoryName(call.entity_name)
            content == schemaRoot.entries[dir].files[sel]
            direct == call.op = "get_entity_example"
        IN IF sel = <<>>
           THEN ret = IF direct THEN Returned("{}")
                      ELSE Returned([status |-> 200, body |-> "{}"])
           ELSE IF content.kind = "json"
           THEN ret = IF direct THEN Returned(content.doc)
                      ELSE Returned([status |-> 200, body |-> content.doc])
           ELSE IF direct THEN ret.kind = "raise"
                ELSE ret.kind = "return" /\ ret.value.status = 404
                     /\ DOMAIN ret.value.body = {"error"}

\* The entity directory exists and holds other files, but neither the named
\* example nor the default one: {} is returned.
C7_Witness ==
    /\ call.op = "get_entity_example"
    /\ call.example_name = <<"y">>
    /\ path_exists(schemaRoot, <<"a">>, <<"x", ".json">>)
    /\ call.entity_name = <<"A">>
    /\ SelectedExample(schemaRoot, call.entity_name, call.example_name) = <<>>
    /\ ret = Returned("{}")

\* The dictionary file that the last get_entity_dictionary call parsed.
ParsedFile ==
    schemaRoot.entries[toDirectoryName(call.entity_name)]
        .files[dictionary_file_name(toDirectoryName(call.entity_name))]

DictionaryParsed ==
    /\ call.op = "get_entity_dictionary"
    /\ path_exists(schemaRoot, toDirectoryName(call.entity_name),
                   dictionary_file_name(toDirectoryName(call.entity_name)))

\* The texts of the non-blank lines, joined by single spaces.
JoinedText(lines) ==
    LET nb == SelectSeq(lines, LAMBDA l : l.kind # "blank")
    IN Join([i \in 1..Len(nb) |-> IF i = 1 THEN nb[i].text ELSE <<" ">> \o nb[i].text])

FieldName(r) == SelectSeq(r.name, LAMBDA tok : tok # BACKQUOTE)

AcceptedRows(shape) == {i \in 1..Len(shape.rows) : shape.rows[i].ncells >= 4}

DistinctFieldNames(shape) ==
    \A i, j \in 1..Len(shape.rows) :
        i # j => FieldName(shape.rows[i]) # FieldName(shape.rows[j])

\* One entry per body row of at least 4 cells, none for the header row or a
\* shorter row, and required true exactly for the cells Yes and REQUIRED.
FieldsAsInTable(shape, fields) ==
    /\ Cardinality(DOMAIN fields) = Cardinality(AcceptedRows(shape))
    /\ DOMAIN fields = {FieldName(shape.rows[i]) : i \in AcceptedRows(shape)}
    /\ \A i \in AcceptedRows(shape) :
          fields[FieldName(shape.rows[i])].required =
              (shape.rows[i].required \in {<<" ", "Yes">>, <<"REQUIRED">>})

\* C10 as stated: an "### Overview" paragraph followed by one data table
\* parses to an overview equal to the paragraph's non-blank lines joined by
\* single spaces, and nothing else, and to one fields entry per body row of
\* at least 4 cells with the right required flag.
C10_OverviewIsParagraph ==
    (DictionaryParsed /\ DistinctFieldNames(ParsedFile.shape)) =>
        /\ ret.value.overview = JoinedText(ParsedFile.shape.paragraph)
        /\ FieldsAsInTable(ParsedFile.shape, ret.value.fields)

\* C10 amended: the overview equals the paragraph's non-blank lines joined
\* by single spaces when a line starting with ### stands between the
\* paragraph and the table; without one the overview section is still open
\* and takes in every line of the table as well.  The fields mapping has one
\* entry per body row of at least 4 cells either way.
C10_OverviewUntilHeading ==
    (DictionaryParsed /\ DistinctFieldNames(ParsedFile.shape)) =>
        /\ ParsedFile.shape.heading
              => ret.value.overview = JoinedText(ParsedFile.shape.paragraph)
        /\ ~ParsedFile.shape.heading
              => ret.value.overview = JoinedText(Tail(ParsedFile.lines))
        /\ FieldsAsInTable(ParsedFile.shape, ret.value.fields)

\* A document with the heading, a two-line paragraph and two body rows, one
\* required and one not, parsed to two entries.
C10_Witness ==
    /\ DictionaryParsed
    /\ ParsedFile.shape.heading
    /\ Len(ParsedFile.shape.paragraph) = 3
    /\ Cardinality(AcceptedRows(ParsedFile.shape)) = 2
    /\ ret.value.overview = <<"p1", " ", "p2">>
    /\ DOMAIN ret.value.fields = {<<"f1">>, <<"f2">>}
    /\ ret.value.fields[<<"f1">>].required
    /\ ~ret.value.fields[<<"f2">>].required

\* What the last validate_entity call had to work with.
Validated == call.op = "validate_entity"

LoadedSchema == load_entity_schema(schemaRoot, call.entity_name)

SchemaFileOf(entity_name) ==
    schemaRoot.entries[toDirectoryName(entity_name)].files[SCHEMA_FILE]

\* The violations the schema validator reports for the call.
RawViolations == iter_errors(LoadedSchema.value, call.test_data)

ViolationsFound ==
    Validated /\ LoadedSchema.kind = "return" /\ RawViolations # <<>>

ValidationPassed ==
    Validated /\ LoadedSchema.kind = "return" /\ RawViolations = <<>>

\* The category of each schema keyword, as the rendering table gives it.
CategoryOf(keyword) ==
    CASE keyword \in {"required", "type", "enum", "pattern", "format"} -> keyword
      [] keyword \in {"minLength", "maxLength", "minimum", "maximum"} -> "constraint"
      [] OTHER -> "other"

RECURSIVE SumOfLengths(_, _)
SumOfLengths(buckets, keys) ==
    IF keys = {} THEN 0
    ELSE LET k == CHOOSE x \in keys : TRUE
         IN Len(buckets[k]) + SumOfLengths(buckets, keys \ {k})

\* C1: when the validator reports violations the result has valid = false,
\* errors holds one descriptor per raw violation in the validator's order
\* (of that violation's category), and errors_by_type partitions errors:
\* each bucket is exactly the descriptors of its type, in the order of
\* errors, and the bucket lengths sum to the length of errors.
C1_ErrorsPartitioned ==
    ViolationsFound =>
        LET r == ret.value
        IN /\ ret.kind = "return"
           /\ r.valid = FALSE
           /\ Len(r.errors) = Len(RawViolations)
           /\ \A i \in 1..Len(r.errors) :
                 r.errors[i].type = CategoryOf(RawViolations[i].validator)
           /\ DOMAIN r.errors_by_type = ErrorTypes
           /\ \A t \in ErrorTypes :
                 r.errors_by_type[t] = SelectSeq(r.errors, LAMBDA e : e.type = t)
           /\ SumOfLengths(r.errors_by_type, ErrorTypes) = Len(r.errors)

\* A type violation on one field and an enum violation on another: both
\* descriptors in errors, each in its bucket.
C1_Witness ==
    /\ ViolationsFound
    /\ Len(ret.value.errors) = 2
    /\ ret.value.errors[1].type = "type"
    /\ ret.value.errors[2].type = "enum"
    /\ ret.value.errors_by_type["type"] = <<ret.value.errors[1]>>
    /\ ret.value.errors_by_type["enum"] = <<ret.value.errors[2]>>
    /\ ~ret.value.valid

\* The descriptors of category required in the result, <<>> when the result
\* has no errors_by_type.
RequiredDescriptors ==
    IF "errors_by_type" \in DOMAIN ret.value
    THEN ret.value.errors_by_type["required"] ELSE <<>>

MissingFields ==
    {f \in Range(LoadedSchema.value.required) : f \notin DOMAIN call.test_data}

\* C2: for a schema whose root required list is R and an object testData
\* there is exactly one required descriptor per field of R absent from
\* testData, each naming a distinct missing field, and none for a field that
\* is present.
C2_OnePerMissingField ==
    (Validated /\ LoadedSchema.kind = "return") =>
        /\ Len(RequiredDescriptors) = Cardinality(MissingFields)
        /\ {RequiredDescriptors[i].field : i \in 1..Len(RequiredDescriptors)}
               = MissingFields

\* C3: when the schema file exists, parses and has no rules key, and the
\* validator finds no violation, the result is valid, schema_valid and
\* business_rules_valid, with no errors.
C3_ConformantWithoutRules ==
    (ValidationPassed /\ SchemaFileOf(call.entity_name).doc.rules = "absent") =>
        /\ ret.kind = "return"
        /\ ret.value.valid
        /\ ret.value.schema_valid
        /\ ret.value.business_rules_valid
        /\ ret.value.errors = <<>>

\* Data that has both required fields, one of them as the empty string, and
\* meets a constraint, against a schema file without rules.
C3_Witness ==
    /\ ValidationPassed
    /\ SchemaFileOf(call.entity_name).doc.rules = "absent"
    /\ Len(LoadedSchema.value.required) = 2
    /\ LoadedSchema.value.properties[1].constraint = "pattern"
    /\ call.test_data[<<"b">>] = "str_empty"
    /\ ret.value.valid
    /\ ret.value.errors = <<>>

SchemaAbsent ==
    ~path_exists(schemaRoot, toDirectoryName(call.entity_name), SCHEMA_FILE)

SchemaMalformed ==
    /\ ~SchemaAbsent
    /\ SchemaFileOf(call.entity_name).kind = "malformed"

\* C4: validate raises nothing, whatever the entity name, the test data and
\* the state of the schema file; with the schema file absent or malformed the
\* result has valid, schema_valid and business_rules_valid false and one
\* errors entry, the text describing the schema failure, and nothing that a
\* validation of testData would have produced.
C4_NeverRaises ==
    Validated =>
        /\ ret.kind = "return"
        /\ (SchemaAbsent \/ SchemaMalformed) =>
              /\ ~ret.value.valid
              /\ ~ret.value.schema_valid
              /\ ~ret.value.business_rules_valid
              /\ Len(ret.value.errors) = 1
              /\ DOMAIN ret.value.errors[1] = {"str"}
              /\ ret.value.errors[1].str[1] =
                     (IF SchemaAbsent THEN "Schema not found: " ELSE "Validation error: ")
              /\ "errors_by_type" \notin DOMAIN ret.value

\* A malformed schema file, and data given: the generic error result.
C4_Witness ==
    /\ Validated
    /\ SchemaMalformed
    /\ DOMAIN call.test_data # {}
    /\ ret.kind = "return"
    /\ ret.value.message = <<"Validation error">>

ResultFields ==
    {"valid", "schema_valid", "business_rules_valid", "errors", "errors_by_type",
     "message"}

IsDescriptor(e) == {"type", "field", "message"} \subseteq DOMAIN e

\* C5 as stated: every result of validate carries the six fields valid,
\* schema_valid, business_rules_valid, errors, errors_by_type and message,
\* and every element of errors is a descriptor with type, field and message.
C5_SixFieldsOnEveryPath ==
    Validated =>
        /\ DOMAIN ret.value = ResultFields
        /\ \A i \in 1..Len(ret.value.errors) : IsDescriptor(ret.value.errors[i])

\* C5 amended: every result carries valid, schema_valid,
\* business_rules_valid, errors and message.  errors_by_type is there
\* exactly when violations were found, and then every element of errors is
\* a descriptor with type, field and message; on every other path (passed,
\* with or without warnings; schema not found; unexpected exception) the
\* elements of errors are plain strings.
C5_FieldsByPath ==
    Validated =>
        /\ ret.kind = "return"
        /\ ResultFields \ {"errors_by_type"} \subseteq DOMAIN ret.value
        /\ DOMAIN ret.value \subseteq ResultFields
        /\ ("errors_by_type" \in DOMAIN ret.value) <=> ViolationsFound
        /\ \A i \in 1..Len(ret.value.errors) :
              IF ViolationsFound THEN IsDescriptor(ret.value.errors[i])
              ELSE DOMAIN ret.value.errors[i] = {"str"}

\* A passed validation against a schema file with rules, one required field
\* held as the empty string: the warnings in errors are plain strings and
\* the result has no errors_by_type.
C5_Witness ==
    /\ ValidationPassed
    /\ SchemaFileOf(call.entity_name).doc.rules = "present"
    /\ Len(ret.value.errors) = 2
    /\ DOMAIN ret.value.errors[1] = {"str"}
    /\ ~ret.value.business_rules_valid
    /\ DOMAIN ret.value = ResultFields \ {"errors_by_type"}

\* C6: a body that carries both entity_name and test_data, whatever their
\* values, is handed to validate and answered with its result; a body
\* missing either is answered 400 with an {error} body and without access
\* to the schema root.
C6_BothKeysValidated ==
    (call.op = "post_validate" /\ call.body.is_object) =>
        IF call.body.entity_name.present /\ call.body.test_data.present
        THEN /\ ret.value.status = 200
             /\ ret.value.validated
             /\ ret.value.body = validate_entity(schemaRoot, call.body.entity_name.value,
                                                 call.body.test_data.value).value
        ELSE /\ ret.value.status = 400
             /\ DOMAIN ret.value.body = {"error"}
             /\ ~ret.value.validated

\* The state of the "rules" key in the schema file of the call's entity.
RulesOfCall == SchemaFileOf(call.entity_name).doc.rules

\* A field of the required array that testData lacks or holds empty.
MissingOrEmpty(field) ==
    \/ field \notin DOMAIN call.test_data
    \/ call.test_data[field] \in {"null", "str_empty"}

WarnedFields ==
    SelectSeq(LoadedSchema.value.required, MissingOrEmpty)

Disclaimer == Str(<<"Note: Advanced business rule validation temporarily disabled">>)

WarningFor(field) == Str(<<"Required field '">> \o field \o <<"' is missing or empty">>)

\* The result of a passed validation on which the required fields were
\* checked again: one warning per missing or empty field, in the order of the
\* required array, then the disclaimer.
RulesChecked ==
    /\ Len(ret.value.errors) = Len(WarnedFields) + 1
    /\ \A i \in 1..Len(WarnedFields) : ret.value.errors[i] = WarningFor(WarnedFields[i])
    /\ ret.value.errors[Len(ret.value.errors)] = Disclaimer
    /\ ret.value.business_rules_valid <=> (WarnedFields = <<>>)
    /\ ret.value.message = (IF WarnedFields = <<>> THEN <<"Validation successful">>
                            ELSE <<"Schema valid but business rules failed">>)

\* The result of a passed validation without the check.
RulesSkipped ==
    /\ ret.value.errors = <<>>
    /\ ret.value.business_rules_valid
    /\ ret.value.message = <<"Validation successful">>

====
